---- MODULE Spec2Model ----
(***************************************************************************)
(* Model of the Consensus report exporter: the pagination loop of          *)
(* APIClient.get_all_consensus_data (src/api_client.py), the flattening    *)
(* of DataProcessor.process_data, the projection of                        *)
(* DataProcessor.create_summary_csv (src/data_processor.py) and the        *)
(* orchestration of main (src/main.py).                                    *)
(*                                                                         *)
(* Encoding of Python values:                                              *)
(*   str            a sequence of one-character strings ("" is <<>>)       *)
(*   None / NaN     the one-element sequences None and NaN below           *)
(*   Optional[int]  <<>> for None, <<n>> for the integer n                 *)
(*   dict           a function whose DOMAIN is the set of keys present     *)
(*   list           a sequence                                             *)
(***************************************************************************)
EXTENDS Integers, Sequences, FiniteSets, TLC

VARIABLES
    server,         \* the remote API of this run (environment)
    pc,             \* position of the program
    page,           \* get_all_consensus_data: local `page`
    all_items,      \* get_all_consensus_data: local `all_items`
    response_data,  \* get_all_consensus_data: local `response_data`
    log,            \* history: one entry [page, body] per request issued
    advances,       \* history: number of assignments page = next_page
    stop,           \* which branch ended the loop (its log message)
    data,           \* main: local `data`
    df,             \* main: local `df`
    summary_df,     \* main: local `summary_df`
    exit_code       \* status the process exits with (-1 while running)

vars == <<server, pc, page, all_items, response_data, log, advances, stop,
          data, df, summary_df, exit_code>>

-----------------------------------------------------------------------------
(* Bounds of the model and constants of the program *)

MaxRequests == 3
CycleSlack == 2
MaxContext == 1
MAX_PAGE == 100

-----------------------------------------------------------------------------
(* Python values *)

None == <<"<None>">>
NaN == <<"<NaN>">>
EmptyDict == [k \in {} |-> <<>>]
Whitespace == {" ", "\t"}

Get(d, key, default) == IF key \in DOMAIN d THEN d[key] ELSE default

RECURSIVE Concat(_)
Concat(seqs) == IF seqs = <<>> THEN <<>> ELSE Head(seqs) \o Concat(Tail(seqs))

NoneValue == [kind |-> "None", items |-> <<>>]
ListValue(items) == [kind |-> "list", items |-> items]
Unset == [kind |-> "unset", items |-> <<>>]

EmptyFrame == [columns |-> <<>>, rows |-> <<>>]

-----------------------------------------------------------------------------
(* Strings *)

S_null == <<"n", "u", "l", "l">>
S_None == <<"N", "o", "n", "e">>
S_nan == <<"n", "a", "n">>
Digits == {"0", "1", "2", "3", "4", "5", "6", "7", "8", "9"}

RECURSIVE LStrip(_)
LStrip(s) == IF s # <<>> /\ Head(s) \in Whitespace THEN LStrip(Tail(s)) ELSE s

RECURSIVE RStrip(_)
RStrip(s) ==
    IF s # <<>> /\ s[Len(s)] \in Whitespace
    THEN RStrip(SubSeq(s, 1, Len(s) - 1))
    ELSE s

\* str.strip()
Strip(s) == RStrip(LStrip(s))

\* astype(str)
AsStr(v) == IF v = None THEN S_None ELSE IF v = NaN THEN S_nan ELSE v

\* pandas.isna
IsNA(v) == v \in {None, NaN}

-----------------------------------------------------------------------------
(* DataProcessor._clean_consensus_data *)

\* df.dropna(how='all') keeps a row unless every cell of it is NA
KeepRow(row) == \E c \in DOMAIN row : ~IsNA(row[c])

\* df.replace(['null', 'None', None], '')
ReplaceSentinels(v) == IF IsNA(v) \/ v \in {S_null, S_None} THEN <<>> ELSE v

\* df[col].astype(str).str.strip(), then .replace('nan', '')
StripCell(v) == LET s == Strip(AsStr(v)) IN IF s = S_nan THEN <<>> ELSE s

\* pd.to_numeric(errors='coerce'): a number, or NaN for what does not parse
ToNumeric(v) ==
    IF v # <<>> /\ \A i \in 1..Len(v) : v[i] \in Digits THEN v ELSE NaN

numeric_columns == {"viewTime"}

CleanCell(col, v) ==
    LET s == StripCell(ReplaceSentinels(v))
    IN  IF col \in numeric_columns THEN ToNumeric(s) ELSE s

CleanRow(row) == [c \in DOMAIN row |-> CleanCell(c, row[c])]

clean_consensus_data(frame) ==
    LET kept == SelectSeq(frame.rows, KeepRow)
    IN  [columns |-> frame.columns,
         rows |-> [i \in 1..Len(kept) |-> CleanRow(kept[i])]]

-----------------------------------------------------------------------------
(* DataProcessor.process_data *)

\* the columns of pd.DataFrame(processed_records), in key insertion order
FlatColumns ==
    <<"senddemoUuid", "demoboardName", "organization", "viewTime",
      "timeLastView", "externalAccountId", "externalOpportunityId",
      "externalAccountName", "externalOpportunityName", "demoUuids">>

demoboard_info(record) ==
    LET ext_opp == Get(record, "externalOpportunity", EmptyDict)
    IN  [senddemoUuid |-> Get(record, "senddemoUuid", <<>>),
         demoboardName |-> Get(record, "demoboardName", <<>>),
         organization |-> Get(record, "organization", <<>>),
         viewTime |-> Get(record, "viewTime", <<"0">>),
         timeLastView |-> Get(record, "timeLastView", <<>>),
         externalAccountId |-> Get(ext_opp, "externalAccountId", <<>>),
         externalOpportunityId |-> Get(ext_opp, "externalOpportunityId", <<>>),
         externalAccountName |-> Get(ext_opp, "externalAccountName", <<>>),
         externalOpportunityName |->
             Get(ext_opp, "externalOpportunityName", <<>>)]

\* mutant: every expanded row keeps the parent id
ExpandedRowKeepsParent(info, i, demo_uuid) == ("demoUuids" :> demo_uuid) @@ info

\* the row of the id at (0-based) index i of demoUuids
ExpandedRow(info, i, demo_uuid) ==
    IF i = 0
    THEN ("demoUuids" :> demo_uuid) @@ info
    ELSE ("demoUuids" :> demo_uuid) @@ [info EXCEPT !.senddemoUuid = <<>>]

\* mutant: the fallback row takes the parent id as its session id
FallbackRowParentId(info, record) == ("demoUuids" :> info.senddemoUuid) @@ info

\* the single row of a record without demoUuids
FallbackRow(info, record) == ("demoUuids" :> Get(record, "demoUuid", <<>>)) @@ info

\* the rows appended to processed_records for one record
FlattenRecord(record) ==
    LET info == demoboard_info(record)
        demo_uuids == Get(record, "demoUuids", <<>>)
    IN  IF demo_uuids # <<>>
        THEN [k \in 1..Len(demo_uuids) |->
                 ExpandedRow(info, k - 1, demo_uuids[k])]
        ELSE <<FallbackRow(info, record)>>

process_data(records) ==
    IF records = <<>>
    THEN EmptyFrame
    ELSE clean_consensus_data(
             [columns |-> FlatColumns,
              rows |-> Concat([j \in 1..Len(records) |->
                                  FlattenRecord(records[j])])])

\* DataFrame.empty
IsEmpty(frame) == Len(frame.columns) = 0 \/ Len(frame.rows) = 0

-----------------------------------------------------------------------------
(* DataProcessor.create_summary_csv *)

summary_columns ==
    <<"senddemoUuid", "demoUuids", "externalAccountId",
      "externalOpportunityId", "viewTime", "timeLastView">>

column_mapping ==
    [senddemoUuid |-> "Demoboard_ID",
     demoUuids |-> "Demo_IDs",
     externalAccountId |-> "Salesforce_External_AccountId",
     externalOpportunityId |-> "Salesforce_External_OppId",
     viewTime |-> "View_Time_Seconds",
     timeLastView |-> "Demoboard_View_Date"]

Range(s) == {s[i] : i \in 1..Len(s)}

\* mutant: the requested columns in the frame's own column order
AvailableInFrameOrder(frame) ==
    LET Requested(c) == c \in Range(summary_columns)
    IN  SelectSeq(frame.columns, Requested)

\* [col for col in summary_columns if col in df.columns]
available_columns(frame) ==
    LET InFrame(c) == c \in Range(frame.columns)
    IN  SelectSeq(summary_columns, InFrame)

\* df[available].copy().rename(columns=column_mapping)
SelectRename(frame, available) ==
    LET Renamed(c) == Get(column_mapping, c, c)
        Source(n) == CHOOSE c \in Range(available) : Renamed(c) = n
    IN  [columns |-> [i \in 1..Len(available) |-> Renamed(available[i])],
         rows |-> [r \in 1..Len(frame.rows) |->
                      [n \in {Renamed(c) : c \in Range(available)} |->
                          frame.rows[r][Source(n)]]]]

create_summary_csv(frame) ==
    IF IsEmpty(frame)
    THEN EmptyFrame
    ELSE IF available_columns(frame) = <<>>
         THEN frame
         ELSE SelectRename(frame, available_columns(frame))

-----------------------------------------------------------------------------
(* The remote API: what one page request can be answered with *)

\* RawRecords served by the API in the runs of Spec
RecA ==
    [senddemoUuid |-> <<"A", "1">>,
     demoUuids |-> << <<"d", "1">>, <<"d", "2">> >>,
     viewTime |-> <<"4", "2">>,
     timeLastView |-> <<"2", "0", "2", "5">>,
     externalOpportunity |-> [externalAccountId |-> <<"X">>]]
RecB == [senddemoUuid |-> <<"B", "1">>, demoUuid |-> <<"d", "9">>]
RecC == [senddemoUuid |-> <<" ", "C", "1">>, demoUuids |-> << <<"d", "3">> >>]

ItemLists == {<<>>, <<RecA>>, <<RecB, RecC>>}

\* values of paging.nextPage (<<>> is JSON null)
Cursors == {<<>>, <<0>>, <<-1>>, <<1>>, <<2>>, <<MAX_PAGE>>, <<MAX_PAGE + 1>>}

PagingDicts == {EmptyDict} \cup {("nextPage" :> c) : c \in Cursors}

\* values of data['data'] that are mappings
DataDicts ==
    {EmptyDict}
    \cup {("items" :> i) : i \in ItemLists}
    \cup {("paging" :> g) : g \in PagingDicts}
    \cup {("items" :> i) @@ ("paging" :> g) : i \in ItemLists, g \in PagingDicts}

\* "raise": the POST, raise_for_status() or response.json() raises;
\* "nodata": the JSON body is not a mapping or has no 'data';
\* "badtype": data['data'] is a list; "ok": data['data'] is a mapping
Bodies ==
    {[kind |-> k, data |-> EmptyDict] : k \in {"raise", "nodata", "badtype"}}
    \cup {[kind |-> "ok", data |-> d] : d \in DataDicts}

OkBody(items, next_page) ==
    [kind |-> "ok",
     data |-> ("items" :> items) @@ ("paging" :> ("nextPage" :> <<next_page>>))]

AnyServer == [mode |-> "any", at |-> 0, to |-> 0]
NoServer == [mode |-> "none", at |-> 0, to |-> 0]
\* a server whose cursor runs 2, 3, 4, ... and, at page `at`, goes back to `to`
CycleServers ==
    {[mode |-> "cycle", at |-> a, to |-> t] :
        a \in {0, 1, 2, 3, MAX_PAGE}, t \in {1, 2}}

Responses(srv, p) ==
    CASE srv.mode = "any" -> Bodies
      [] srv.mode = "cycle" ->
            {OkBody(<<RecB>>, IF p = srv.at THEN srv.to ELSE p + 1)}
      [] OTHER -> {}

RequestCap(srv) ==
    IF srv.mode = "cycle" THEN MAX_PAGE + CycleSlack ELSE MaxRequests

-----------------------------------------------------------------------------
(* APIClient.get_consensus_data_with_pagination *)

DictValue(d) == [kind |-> "dict", d |-> d]
NoResponse == [kind |-> "None", d |-> EmptyDict]
OtherValue == [kind |-> "other", d |-> EmptyDict]

\* the value returned for a page whose request is answered with `body`
Transport(body) ==
    CASE body.kind = "ok" -> DictValue(body.data)
      [] body.kind = "badtype" -> OtherValue
      [] OTHER -> NoResponse

get_consensus_data_with_pagination ==
    /\ pc = "request"
    /\ Len(log) < RequestCap(server)
    /\ \E body \in Responses(server, page) :
          /\ response_data' = Transport(body)
          /\ log' = Append(log, [page |-> page, body |-> body])
    /\ pc' = "handle"
    /\ UNCHANGED <<server, page, all_items, advances, stop, data, df,
                   summary_df, exit_code>>

-----------------------------------------------------------------------------
(* APIClient.get_all_consensus_data *)

\* mutant: the page replaces what was accumulated
ExtendOverwrites(acc, items) == items

\* mutant: the page is put before what was accumulated
ExtendPrepends(acc, items) == items \o acc

\* all_items.extend(items)
Extend(acc, items) == acc \o items

\* mutant: an empty page does not stop the loop
NoMoreDataNever(items) == FALSE

\* not items
NoMoreData(items) == items = <<>>

\* next_page is None or next_page == 0
LastPage(next_page) == next_page = <<>> \/ next_page = <<0>>

\* mutant: the loop never stops on the page number
OverLimitNever(p) == FALSE

\* page > 100
OverLimit(p) == p > MAX_PAGE

\* mutant: the next page is computed as page + 1
AdvanceIncrements(p, next_page) == p + 1

\* page = next_page
Advance(p, next_page) == next_page[1]

\* one pass of the while loop after the page request has returned `rd`:
\* the branch taken (stop = "" when the loop goes round again), and the
\* locals and the return value it leaves
LoopBody(rd, p, acc) ==
    LET items == Get(rd.d, "items", <<>>)
        paging == Get(rd.d, "paging", EmptyDict)
        next_page == Get(paging, "nextPage", <<0>>)
        grown == Extend(acc, items)
    IN  CASE rd.kind = "None" ->
                [stop |-> "failed", page |-> p, all_items |-> acc,
                 advanced |-> FALSE, ret |-> ListValue(acc)]
          [] rd.kind = "other" ->
                [stop |-> "exception", page |-> p, all_items |-> acc,
                 advanced |-> FALSE,
                 ret |-> IF acc # <<>> THEN ListValue(acc) ELSE NoneValue]
          [] OTHER ->
                IF NoMoreData(items)
                THEN [stop |-> "empty", page |-> p, all_items |-> acc,
                      advanced |-> FALSE, ret |-> ListValue(acc)]
                ELSE IF LastPage(next_page)
                THEN [stop |-> "last", page |-> p, all_items |-> grown,
                      advanced |-> FALSE, ret |-> ListValue(grown)]
                ELSE IF OverLimit(Advance(p, next_page))
                THEN [stop |-> "limit", page |-> Advance(p, next_page),
                      all_items |-> grown, advanced |-> TRUE,
                      ret |-> ListValue(grown)]
                ELSE [stop |-> "", page |-> Advance(p, next_page),
                      all_items |-> grown, advanced |-> TRUE, ret |-> Unset]

get_all_consensus_data ==
    /\ pc = "handle"
    /\ LET out == LoopBody(response_data, page, all_items)
       IN  /\ page' = out.page
           /\ all_items' = out.all_items
           /\ advances' = IF out.advanced THEN advances + 1 ELSE advances
           /\ stop' = out.stop
           /\ data' = out.ret
           /\ pc' = IF out.stop = "" THEN "request" ELSE "fetched"
    /\ UNCHANGED <<server, response_data, log, df, summary_df, exit_code>>

-----------------------------------------------------------------------------
(* main *)

\* data is None -> exit(1); df = process_data(data); df.empty -> exit(0)
main_process ==
    /\ pc = "fetched"
    /\ IF data.kind = "None"
       THEN /\ exit_code' = 1
            /\ pc' = "exit"
            /\ df' = df
       ELSE /\ df' = process_data(data.items)
            /\ exit_code' = IF IsEmpty(df') THEN 0 ELSE exit_code
            /\ pc' = IF IsEmpty(df') THEN "exit" ELSE "processed"
    /\ UNCHANGED <<server, page, all_items, response_data, log, advances,
                   stop, data, summary_df>>

\* summary_df = create_summary_csv(df); the two exports; exit status
main_summary ==
    /\ pc = "processed"
    /\ summary_df' = create_summary_csv(df)
    /\ \E full_success, summary_success \in BOOLEAN :
          exit_code' = IF full_success /\ summary_success THEN 0 ELSE 1
    /\ pc' = "exit"
    /\ UNCHANGED <<server, page, all_items, response_data, log, advances,
                   stop, data, df>>

-----------------------------------------------------------------------------
(* Specifications *)

InitLocals ==
    /\ page = 1
    /\ all_items = <<>>
    /\ response_data = NoResponse
    /\ log = <<>>
    /\ advances = 0
    /\ stop = ""
    /\ df = EmptyFrame
    /\ summary_df = EmptyFrame
    /\ exit_code = -1

\* a run of main against an API that may answer each request with any body
Init ==
    /\ server = AnyServer
    /\ pc = "request"
    /\ data = Unset
    /\ InitLocals

Next ==
    \/ get_consensus_data_with_pagination
    \/ get_all_consensus_data
    \/ main_process
    \/ main_summary

Spec == Init /\ [][Next]_vars

\* a run of main against an API whose cursor is always positive
InitCycle ==
    /\ server \in CycleServers
    /\ pc = "request"
    /\ data = Unset
    /\ InitLocals

SpecCycle == InitCycle /\ [][Next]_vars

-----------------------------------------------------------------------------
(* Vocabulary of the pagination claims: the pages served so far *)

Handled == pc # "handle"
Returned == pc \in {"fetched", "processed", "exit"}

EntryOk(e) == e.body.kind = "ok"
EntryFailed(e) == e.body.kind \in {"raise", "nodata"}
EntryItems(e) == Get(e.body.data, "items", <<>>)
EntryPaging(e) == Get(e.body.data, "paging", EmptyDict)
HasCursor(e) == "nextPage" \in DOMAIN EntryPaging(e) /\ EntryPaging(e)["nextPage"] # <<>>
CursorOf(e) == EntryPaging(e)["nextPage"][1]
PositiveCursor(e) == HasCursor(e) /\ CursorOf(e) > 0
ZeroCursor(e) == HasCursor(e) /\ CursorOf(e) = 0

\* a response of the shape {data: {items, paging: {nextPage}}}
PageResponse(e) ==
    /\ EntryOk(e)
    /\ "items" \in DOMAIN e.body.data
    /\ "paging" \in DOMAIN e.body.data
    /\ HasCursor(e)

NonEmptyPage(e) == PageResponse(e) /\ EntryItems(e) # <<>>

\* the items of the first n pages served, in fetch order
ConcatPages(n) == Concat([i \in 1..n |-> EntryItems(log[i])])

-----------------------------------------------------------------------------
(* C1 *)

\* C1 as stated: whenever pages 1..k-1 are successful responses with a
\* positive nextPage and page k is the first with nextPage = 0, the loop
\* issues exactly k requests (it stops neither before nor after page k) and
\* returns the concatenation of the k pages' items.
C1_Original ==
    /\ \A k \in 1..Len(log) :
          (/\ \A i \in 1..k : PageResponse(log[i])
           /\ \A i \in 1..(k - 1) : PositiveCursor(log[i])
           /\ ZeroCursor(log[k]))
          => /\ Len(log) = k
             /\ Handled => Returned /\ data = ListValue(ConcatPages(k))
    /\ ~(/\ Returned
         /\ \A i \in 1..Len(log) : PageResponse(log[i]) /\ PositiveCursor(log[i]))

\* C1 amended: the same, for pages that are all non-empty and whose positive
\* cursors are all at most 100.
C1_TerminatesAtFirstZeroCursor ==
    /\ \A k \in 1..Len(log) :
          (/\ \A i \in 1..k : NonEmptyPage(log[i])
           /\ \A i \in 1..(k - 1) :
                 PositiveCursor(log[i]) /\ CursorOf(log[i]) <= MAX_PAGE
           /\ ZeroCursor(log[k]))
          => /\ Len(log) = k
             /\ Handled => Returned /\ data = ListValue(ConcatPages(k))
    /\ ~(/\ Returned
         /\ \A i \in 1..Len(log) :
               /\ NonEmptyPage(log[i])
               /\ PositiveCursor(log[i])
               /\ CursorOf(log[i]) <= MAX_PAGE)

C1_Witness ==
    /\ Returned
    /\ Len(log) = 3
    /\ \A i \in 1..3 : NonEmptyPage(log[i])
    /\ PositiveCursor(log[1]) /\ PositiveCursor(log[2]) /\ ZeroCursor(log[3])
    /\ EntryItems(log[1]) # EntryItems(log[2])
    /\ data = ListValue(ConcatPages(3))

-----------------------------------------------------------------------------
(* C2 *)

\* C2 as stated, for the runs of SpecCycle (every response is successful,
\* non-empty and carries a positive nextPage): the loop never makes more
\* than 100 page advances, and when it has stopped it has made exactly 100.
C2_StopsAfter100Advances ==
    /\ advances <= MAX_PAGE
    /\ Returned => advances = MAX_PAGE

-----------------------------------------------------------------------------
(* C3 *)

\* what a natural end of data returns for the same accumulated items
NaturalEndReturn(items) == ListValue(items)

\* C3 as stated: when pages 1..k-1 are non-empty with a positive cursor and
\* the k-th request fails, no further request is issued and the value
\* returned holds the items of pages 1..k-1 and differs from the value a
\* natural end of data with those items returns (it carries a flag).
C3_PartialFailureFlag ==
    \A k \in 1..Len(log) :
        (/\ \A i \in 1..(k - 1) : NonEmptyPage(log[i]) /\ PositiveCursor(log[i])
         /\ EntryFailed(log[k]))
        => /\ Len(log) = k
           /\ Handled =>
                 /\ Returned
                 /\ data.items = ConcatPages(k - 1)
                 /\ data # NaturalEndReturn(ConcatPages(k - 1))

-----------------------------------------------------------------------------
(* C4 *)

\* C4: a successfully fetched page with an empty item list is the last page
\* requested, whatever its nextPage, and the loop then returns exactly the
\* items of the earlier pages.
C4_EmptyPageStops ==
    \A k \in 1..Len(log) :
        (EntryOk(log[k]) /\ EntryItems(log[k]) = <<>>)
        => /\ Len(log) = k
           /\ Handled =>
                 /\ Returned
                 /\ stop = "empty"
                 /\ data = ListValue(ConcatPages(k - 1))

C4_Witness ==
    /\ Returned
    /\ Len(log) = 2
    /\ log[1].body = OkBody(<<RecA>>, 2)
    /\ log[2].body = OkBody(<<>>, 2)
    /\ data = ListValue(<<RecA>>)

\* the spec's scenario: empty page 1 with nextPage = 2
C4_Scenario ==
    (Handled /\ Len(log) >= 1 /\ log[1].body = OkBody(<<>>, 2))
    => Returned /\ Len(log) = 1 /\ data = ListValue(<<>>)

-----------------------------------------------------------------------------
(* C5 *)

\* C5 as stated: after a non-empty page, another request is issued only when
\* the page's next_page is strictly positive; with next_page absent, zero or
\* negative the loop stops.
C5_StopsUnlessPositive ==
    /\ \A i \in 1..(Len(log) - 1) : PositiveCursor(log[i])
    /\ (/\ Handled
        /\ Len(log) >= 1
        /\ EntryOk(log[Len(log)])
        /\ EntryItems(log[Len(log)]) # <<>>
        /\ ~PositiveCursor(log[Len(log)]))
       => Returned

-----------------------------------------------------------------------------
(* C6 *)

LacksShape(e) ==
    EntryOk(e) /\ ("items" \notin DOMAIN e.body.data \/ "paging" \notin DOMAIN e.body.data)

\* C6 as stated: for a response body that lacks data.items or data.paging
\* the page request returns the failure value, nothing of that page is
\* appended, no further request is issued and the accumulation is returned.
C6_ShapeFailure ==
    \A k \in 1..Len(log) :
        LacksShape(log[k])
        => /\ Len(log) = k
           /\ response_data = NoResponse
           /\ Handled => Returned /\ data.items = ConcatPages(k - 1)

\* the part of C6 that the code does not provide even in effect: a page
\* without data.paging is appended
C6_NothingAppended ==
    \A k \in 1..Len(log) :
        (LacksShape(log[k]) /\ Handled)
        => data.items = ConcatPages(k - 1)

-----------------------------------------------------------------------------
(* C7 *)

\* C7 as stated: when the very first page request fails the function
\* returns None and main exits with status 1.
C7_FirstFailureIsNone ==
    (Len(log) = 1 /\ EntryFailed(log[1]))
    => /\ Returned => data = NoneValue
       /\ pc = "exit" => exit_code = 1

-----------------------------------------------------------------------------
(* Inputs of process_data: RawRecords whose scalar fields are a string,    *)
(* JSON null or absent, whose externalOpportunity is a mapping or absent   *)
(* and whose demoUuids is a list of ids (each a string or null) or absent  *)

S_A1 == <<"A", "1">>
S_d1 == <<"d", "1">>
S_d2 == <<"d", "2">>
S_d3 == <<"d", "3">>
S_d9 == <<"d", "9">>

\* the fields other than senddemoUuid, demoUuids and demoUuid
RestProfiles ==
    {EmptyDict,
     [demoboardName |-> None, organization |-> None, viewTime |-> None,
      timeLastView |-> None,
      externalOpportunity |->
          [externalAccountId |-> None, externalOpportunityId |-> None,
           externalAccountName |-> None, externalOpportunityName |-> None]],
     [demoboardName |-> <<"B">>, organization |-> <<" ", "O">>,
      viewTime |-> <<"7">>, timeLastView |-> <<"2", "0", "2", "5">>,
      externalOpportunity |->
          [externalAccountId |-> <<"X">>, externalOpportunityId |-> S_null]]}

Optional(key, values) == {EmptyDict} \cup {(key :> v) : v \in values}

SendIds == {<<>>, S_A1, <<" ", "A", "1", " ">>, None}
IdLists ==
    {<<>>, <<S_d1>>, <<S_d1, S_d2>>, <<None>>, <<None, S_d2>>,
     <<<<" ", "d", "1">>, S_nan, S_d3>>}
FallbackIds == {<<>>, S_d9, <<"d", "9", " ">>, None}

RawRecords ==
    {a @@ b @@ c @@ d :
        a \in Optional("senddemoUuid", SendIds),
        b \in Optional("demoUuids", IdLists),
        c \in Optional("demoUuid", FallbackIds),
        d \in RestProfiles}

RECURSIVE SeqsUpTo(_, _)
SeqsUpTo(S, n) ==
    IF n = 0
    THEN {<<>>}
    ELSE SeqsUpTo(S, n - 1)
         \cup {Append(q, x) : q \in SeqsUpTo(S, n - 1), x \in S}

\* a record between up to MaxContext records before and after it
ContextSeqs == SeqsUpTo({RecA, RecB}, MaxContext)
FlatInputs ==
    {<<>>} \cup {before \o <<r>> \o after :
                    before \in ContextSeqs, r \in RawRecords, after \in ContextSeqs}

\* main from the return of get_all_consensus_data with a list of records
InitFlat ==
    /\ server = NoServer
    /\ pc = "fetched"
    /\ data \in {ListValue(records) : records \in FlatInputs}
    /\ InitLocals

NextFlat == main_process \/ main_summary

SpecFlat == InitFlat /\ [][NextFlat]_vars

-----------------------------------------------------------------------------
(* Inputs of create_summary_csv: frames over any columns in any order *)

Perms(S) ==
    {f \in [1..Cardinality(S) -> S] : \A i, j \in 1..Cardinality(S) : f[i] = f[j] => i = j}

RECURSIVE SubSeqs(_)
SubSeqs(q) ==
    IF q = <<>>
    THEN {<<>>}
    ELSE LET rest == SubSeqs(Tail(q))
         IN  rest \cup {<<Head(q)>> \o t : t \in rest}

ColumnOrders ==
    Perms(Range(summary_columns))
    \cup {<<"organization">> \o f : f \in Perms(Range(summary_columns))}
    \cup SubSeqs(FlatColumns)

FullRow1 ==
    [senddemoUuid |-> S_A1, demoboardName |-> <<"B">>, organization |-> <<"O">>,
     viewTime |-> <<"4", "2">>, timeLastView |-> <<"2", "0", "2", "5">>,
     externalAccountId |-> <<"X">>, externalOpportunityId |-> <<"Y">>,
     externalAccountName |-> <<"N">>, externalOpportunityName |-> <<"M">>,
     demoUuids |-> S_d1]
FullRow2 ==
    [senddemoUuid |-> <<>>, demoboardName |-> <<"B">>, organization |-> <<"O">>,
     viewTime |-> NaN, timeLastView |-> <<>>,
     externalAccountId |-> <<"Y">>, externalOpportunityId |-> <<"X">>,
     externalAccountName |-> <<"N">>, externalOpportunityName |-> <<"M">>,
     demoUuids |-> S_d2]

RowLists == {<<>>, <<FullRow1>>, <<FullRow1, FullRow2, FullRow1>>}

Frame(columns, rows) ==
    [columns |-> columns,
     rows |-> [r \in 1..Len(rows) |-> [c \in Range(columns) |-> rows[r][c]]]]

\* create_summary_csv called on a frame
call_create_summary_csv ==
    /\ pc = "call"
    /\ summary_df' = create_summary_csv(df)
    /\ pc' = "summarised"
    /\ UNCHANGED <<server, page, all_items, response_data, log, advances,
                   stop, data, df, exit_code>>

InitProj ==
    /\ server = NoServer
    /\ pc = "call"
    /\ data = Unset
    /\ page = 1
    /\ all_items = <<>>
    /\ response_data = NoResponse
    /\ log = <<>>
    /\ advances = 0
    /\ stop = ""
    /\ df \in {Frame(columns, rows) : columns \in ColumnOrders, rows \in RowLists}
    /\ summary_df = EmptyFrame
    /\ exit_code = -1

NextProj == call_create_summary_csv

SpecProj == InitProj /\ [][NextProj]_vars

-----------------------------------------------------------------------------
(* Vocabulary of the flattening claims *)

\* process_data has run on the list in `data`
Flattened == pc \in {"processed", "exit"} /\ data.kind = "list"

IdsOf(r) == Get(r, "demoUuids", <<>>)

\* the normal form of a cell of a string column: null and the sentinels
\* 'null' and 'None' are the empty string, whitespace is trimmed, and
\* 'nan' is the empty string
Normalised(v) ==
    IF v \in {None, S_null, S_None}
    THEN <<>>
    ELSE IF Strip(v) = S_nan THEN <<>> ELSE Strip(v)

ScalarFields ==
    {"senddemoUuid", "demoboardName", "organization", "viewTime", "timeLastView"}
OpportunityFields ==
    {"externalAccountId", "externalOpportunityId", "externalAccountName",
     "externalOpportunityName"}

IsNull(d, key) == key \in DOMAIN d /\ d[key] = None

\* every field of the record's first row is JSON null
FirstRowAllNull(r) ==
    /\ \A f \in ScalarFields : IsNull(r, f)
    /\ "externalOpportunity" \in DOMAIN r
    /\ \A g \in OpportunityFields : IsNull(r.externalOpportunity, g)
    /\ IF IdsOf(r) # <<>> THEN IdsOf(r)[1] = None ELSE IsNull(r, "demoUuid")

\* max(1, len(demoUuids))
ClaimedCount(r) == IF IdsOf(r) # <<>> THEN Len(IdsOf(r)) ELSE 1

Dropped(r) == IF FirstRowAllNull(r) THEN 1 ELSE 0

RECURSIVE ClaimedOffset(_, _)
ClaimedOffset(records, j) ==
    IF j = 1 THEN 0
    ELSE ClaimedOffset(records, j - 1) + ClaimedCount(records[j - 1])

RECURSIVE Offset(_, _)
Offset(records, j) ==
    IF j = 1 THEN 0
    ELSE Offset(records, j - 1)
         + ClaimedCount(records[j - 1]) - Dropped(records[j - 1])

-----------------------------------------------------------------------------
(* C8 *)

\* C8 as stated: a record whose demoUuids has N > 0 ids yields exactly N
\* rows, the i-th carrying the i-th id, with senddemoUuid non-empty on the
\* first of them and empty on the others.
C8_Original ==
    Flattened =>
        \A j \in 1..Len(data.items) :
            LET r == data.items[j]
                N == Len(IdsOf(r))
                off == ClaimedOffset(data.items, j)
            IN  N > 0 =>
                   /\ Len(df.rows) >= off + N
                   /\ j = Len(data.items) => Len(df.rows) = off + N
                   /\ \A i \in 1..N :
                         /\ off + i <= Len(df.rows)
                         /\ df.rows[off + i].demoUuids = IdsOf(r)[i]
                         /\ (df.rows[off + i].senddemoUuid # <<>>) <=> (i = 1)

\* C8 amended: such a record yields its N rows in the order of the ids, less
\* the first when every field of that row is null; the row of the i-th id
\* carries that id normalised; senddemoUuid is the record's own, normalised,
\* on the row of the first id and empty on the rows of the others.
C8_OneRowPerId ==
    Flattened =>
        \A j \in 1..Len(data.items) :
            LET r == data.items[j]
                N == Len(IdsOf(r))
                off == Offset(data.items, j) - Dropped(r)
            IN  N > 0 =>
                   /\ Len(df.rows) >= off + N
                   /\ j = Len(data.items) => Len(df.rows) = off + N
                   /\ \A i \in (1 + Dropped(r))..N :
                         /\ df.rows[off + i].demoUuids = Normalised(IdsOf(r)[i])
                         /\ df.rows[off + i].senddemoUuid =
                               IF i = 1
                               THEN Normalised(Get(r, "senddemoUuid", <<>>))
                               ELSE <<>>

C8_Witness ==
    /\ Flattened
    /\ Len(data.items) = 3
    /\ IdsOf(data.items[2]) = <<<<" ", "d", "1">>, S_nan, S_d3>>
    /\ Get(data.items[2], "senddemoUuid", <<>>) = <<" ", "A", "1", " ">>
    /\ Len(df.rows) >= 5
    /\ df.rows[3].senddemoUuid = S_A1
    /\ df.rows[3].demoUuids = S_d1
    /\ df.rows[5].senddemoUuid = <<>>
    /\ df.rows[5].demoUuids = S_d3

-----------------------------------------------------------------------------
(* C9 *)

\* C9 as stated: a record whose demoUuids is empty or absent yields exactly
\* one row, whose session id is record.demoUuid ('' when absent), and the
\* frame has sum over the records of max(1, len(demoUuids)) rows.
C9_Original ==
    Flattened =>
        /\ \A j \in 1..Len(data.items) :
              LET r == data.items[j]
                  off == ClaimedOffset(data.items, j)
              IN  IdsOf(r) = <<>> =>
                     /\ Len(df.rows) >= off + 1
                     /\ df.rows[off + 1].demoUuids = Get(r, "demoUuid", <<>>)
        /\ Len(df.rows) = ClaimedOffset(data.items, Len(data.items) + 1)

\* C9 amended: such a record yields exactly one row, whose session id is
\* record.demoUuid normalised, unless every field of that row is null, when
\* it yields none; the frame has sum of max(1, len(demoUuids)) rows less one
\* for every record whose first row is all null.
C9_FallbackRow ==
    Flattened =>
        /\ \A j \in 1..Len(data.items) :
              LET r == data.items[j]
                  off == Offset(data.items, j)
              IN  (IdsOf(r) = <<>> /\ ~FirstRowAllNull(r)) =>
                     /\ Len(df.rows) >= off + 1
                     /\ df.rows[off + 1].demoUuids =
                           Normalised(Get(r, "demoUuid", <<>>))
                     /\ df.rows[off + 1].senddemoUuid =
                           Normalised(Get(r, "senddemoUuid", <<>>))
        /\ Len(df.rows) = Offset(data.items, Len(data.items) + 1)

C9_Witness ==
    /\ Flattened
    /\ Len(data.items) = 3
    /\ "demoUuids" \notin DOMAIN data.items[2]
    /\ Get(data.items[2], "demoUuid", <<>>) = <<"d", "9", " ">>
    /\ Get(data.items[2], "senddemoUuid", <<>>) = S_A1
    /\ Len(df.rows) = 5
    /\ df.rows[3].demoUuids = S_d9
    /\ df.rows[3].senddemoUuid = S_A1

\* a record whose row is dropped
C9_DroppedWitness ==
    /\ Flattened
    /\ Len(data.items) = 1
    /\ FirstRowAllNull(data.items[1])
    /\ IdsOf(data.items[1]) = <<>>
    /\ Len(df.rows) = 0

-----------------------------------------------------------------------------
(* C10 *)

ExportedColumns ==
    <<"Demoboard_ID", "Demo_IDs", "Salesforce_External_AccountId",
      "Salesforce_External_OppId", "View_Time_Seconds", "Demoboard_View_Date">>

SourceColumns ==
    <<"senddemoUuid", "demoUuids", "externalAccountId",
      "externalOpportunityId", "viewTime", "timeLastView">>

\* C10: for a frame with at least one row that has all 6 source columns, in
\* any column order, the summary has exactly the 6 exported columns in the
\* listed order, as many rows as the frame in the same order, and in each
\* row the cells of the corresponding source columns.
C10_Projection ==
    (/\ pc = "summarised"
     /\ Len(df.rows) > 0
     /\ Range(SourceColumns) \subseteq Range(df.columns))
    => /\ summary_df.columns = ExportedColumns
       /\ Len(summary_df.rows) = Len(df.rows)
       /\ \A r \in 1..Len(df.rows) :
             /\ DOMAIN summary_df.rows[r] = Range(ExportedColumns)
             /\ \A i \in 1..6 :
                   summary_df.rows[r][ExportedColumns[i]]
                       = df.rows[r][SourceColumns[i]]

C10_Witness ==
    /\ pc = "summarised"
    /\ df.columns =
          <<"organization", "timeLastView", "viewTime", "externalOpportunityId",
            "externalAccountId", "demoUuids", "senddemoUuid">>
    /\ Len(df.rows) = 3
    /\ df.rows[1] = df.rows[3]
    /\ summary_df.columns = ExportedColumns
    /\ Len(summary_df.rows) = 3
    /\ summary_df.rows[2]["Demo_IDs"] = S_d2

-----------------------------------------------------------------------------
(* C11 *)

\* where an output row comes from: <<p, j, i>> is the i-th id (or, for a
\* record without demoUuids, the fallback id, i = 1) of the j-th item of the
\* p-th page served
OriginsOfRecord(p, j, r) ==
    LET all == [i \in 1..ClaimedCount(r) |-> <<p, j, i>>]
        Kept(o) == ~(o[3] = 1 /\ FirstRowAllNull(r))
    IN  SelectSeq(all, Kept)

OriginsOfPage(p) ==
    Concat([j \in 1..Len(EntryItems(log[p])) |->
               OriginsOfRecord(p, j, EntryItems(log[p])[j])])

\* the origins of the rows that survive, page by page, item by item, id by id
Origins == Concat([p \in 1..Len(log) |-> OriginsOfPage(p)])

LexLess(a, b) ==
    \/ a[1] < b[1]
    \/ a[1] = b[1] /\ a[2] < b[2]
    \/ a[1] = b[1] /\ a[2] = b[2] /\ a[3] < b[3]

OriginRecord(o) == EntryItems(log[o[1]])[o[2]]

\* the session id and the parent id of the row of origin o
OriginSessionId(o) ==
    LET r == OriginRecord(o)
    IN  Normalised(IF IdsOf(r) # <<>> THEN IdsOf(r)[o[3]]
                   ELSE Get(r, "demoUuid", <<>>))

OriginParentId(o) ==
    IF o[3] = 1
    THEN Normalised(Get(OriginRecord(o), "senddemoUuid", <<>>))
    ELSE <<>>

\* C11: at the end of a full run the rows of the full table are, one for
\* one, the rows of the origins taken in the order page, then item within
\* the page, then index within demoUuids (an earlier origin always comes
\* first), and the rows of the summary table are in the same order.
C11_OrderPreserved ==
    (pc \in {"processed", "exit"})
    => /\ Len(df.rows) = Len(Origins)
       /\ \A n, m \in 1..Len(Origins) : n < m => LexLess(Origins[n], Origins[m])
       /\ \A n \in 1..Len(df.rows) :
             /\ df.rows[n].demoUuids = OriginSessionId(Origins[n])
             /\ df.rows[n].senddemoUuid = OriginParentId(Origins[n])
       /\ (pc = "exit" /\ ~IsEmpty(df)) =>
             /\ Len(summary_df.rows) = Len(Origins)
             /\ \A n \in 1..Len(summary_df.rows) :
                   /\ summary_df.rows[n]["Demo_IDs"] = OriginSessionId(Origins[n])
                   /\ summary_df.rows[n]["Demoboard_ID"] = OriginParentId(Origins[n])

C11_Witness ==
    /\ pc = "exit"
    /\ Len(log) = 2
    /\ EntryItems(log[1]) = <<RecB, RecC>>
    /\ EntryItems(log[2]) = <<RecA>>
    /\ Origins = <<<<1, 1, 1>>, <<1, 2, 1>>, <<2, 1, 1>>, <<2, 1, 2>>>>
    /\ Len(summary_df.rows) = 4
    /\ [n \in 1..4 |-> summary_df.rows[n]["Demo_IDs"]] = <<S_d9, S_d3, S_d1, S_d2>>
    /\ [n \in 1..4 |-> df.rows[n].demoUuids] = <<S_d9, S_d3, S_d1, S_d2>>

-----------------------------------------------------------------------------
(* C12 *)

\* C12: the first request of a run is for page 1, and every later request
\* is for exactly the nextPage value that the response to the request
\* before it returned, whatever that value is (a cursor that skips, repeats
\* or goes back is followed as it is, never replaced by page + 1).
C12_CursorAuthoritative ==
    /\ Len(log) >= 1 => log[1].page = 1
    /\ \A i \in 2..Len(log) :
          /\ EntryOk(log[i - 1])
          /\ HasCursor(log[i - 1])
          /\ log[i].page = CursorOf(log[i - 1])

\* page 1 answers nextPage 100 (a skip), page 100 answers nextPage 1 (a
\* jump back to a page already fetched), and page 1 is requested again
C12_Witness ==
    /\ Len(log) = 3
    /\ CursorOf(log[1]) = MAX_PAGE
    /\ log[2].page = MAX_PAGE
    /\ CursorOf(log[2]) = 1
    /\ log[3].page = 1

-----------------------------------------------------------------------------
(* C13 *)

\* the request that returned a cursor above the page limit
CursorOverLimit(e) == NonEmptyPage(e) /\ HasCursor(e) /\ CursorOf(e) > MAX_PAGE

\* C13: no request is ever issued for a page number above 100; a response
\* with items whose nextPage is above 100 is the last request of the run,
\* and once it is handled the run has returned the items of every page
\* fetched, those of that last page included.
C13_PageBound ==
    /\ \A i \in 1..Len(log) : log[i].page <= MAX_PAGE
    /\ \A i \in 1..Len(log) :
          CursorOverLimit(log[i]) =>
             /\ i = Len(log)
             /\ Handled =>
                   /\ Returned
                   /\ stop = "limit"
                   /\ all_items = ConcatPages(Len(log))
                   /\ pc = "fetched" => data = ListValue(ConcatPages(Len(log)))

\* page 1 leads to page 100, which answers two items and nextPage 101: the
\* run returns the three items and page 101 is not requested
C13_Witness ==
    /\ pc = "fetched"
    /\ stop = "limit"
    /\ Len(log) = 2
    /\ EntryItems(log[1]) = <<RecA>>
    /\ log[2].page = MAX_PAGE
    /\ EntryItems(log[2]) = <<RecB, RecC>>
    /\ CursorOf(log[2]) = MAX_PAGE + 1
    /\ data = ListValue(<<RecA, RecB, RecC>>)

====
